---- MODULE Spec2Model ----
(***************************************************************************)
(* A model of transfercoder.py: mirroring a source directory tree into a   *)
(* destination tree, transcoding some formats and copying the rest.        *)
(*                                                                         *)
(* A path is a Python string, modelled as a sequence of one-character      *)
(* strings: <<"/","s","/","a",".","f">> is "/s/a.f".  The extensions "f",  *)
(* "o" and "m" stand for flac, ogg and mp3.                                *)
(***************************************************************************)
EXTENDS Integers, Sequences, FiniteSets, TLC

(***************************************************************************)
(* String helpers (Python str methods used by os.path)                     *)
(***************************************************************************)
SLASH == "/"
DOT == "."
QUOTE == "\""

\* s[i:j] with Python's 0-based, end-exclusive indices, 0 <= i, j
Slice(s, i, j) ==
    IF j <= i \/ i >= Len(s) THEN <<>>
    ELSE SubSeq(s, i + 1, IF j > Len(s) THEN Len(s) ELSE j)

\* s.rfind(c): the 0-based index of the last c in s, or -1
RFind(s, c) ==
    LET hits == {i \in 1..Len(s) : s[i] = c}
    IN IF hits = {} THEN -1 ELSE (CHOOSE i \in hits : \A k \in hits : k <= i) - 1

\* s.startswith(t)
StartsWith(s, t) == Len(s) >= Len(t) /\ SubSeq(s, 1, Len(t)) = t

\* s.rstrip("/")
RECURSIVE RStripSlash(_)
RStripSlash(s) ==
    IF Len(s) > 0 /\ s[Len(s)] = SLASH THEN RStripSlash(SubSeq(s, 1, Len(s) - 1))
    ELSE s

\* s.split("/"): the list of the pieces between slashes (empty pieces kept)
RECURSIVE SplitSlash(_)
SplitSlash(s) ==
    LET hits == {i \in 1..Len(s) : s[i] = SLASH}
    IN IF hits = {} THEN <<s>>
       ELSE LET i == CHOOSE k \in hits : \A h \in hits : k <= h
            IN <<SubSeq(s, 1, i - 1)>> \o SplitSlash(SubSeq(s, i + 1, Len(s)))

\* "/".join(comps)
RECURSIVE JoinSlash(_)
JoinSlash(comps) ==
    IF Len(comps) = 0 THEN <<>>
    ELSE IF Len(comps) = 1 THEN comps[1]
    ELSE comps[1] \o <<SLASH>> \o JoinSlash(Tail(comps))

\* str.lower() on the letters the model uses
LowerChar(c) ==
    CASE c = "F" -> "f"
      [] c = "O" -> "o"
      [] c = "M" -> "m"
      [] c = "A" -> "a"
      [] OTHER -> c

Lower(s) == [i \in 1..Len(s) |-> LowerChar(s[i])]

\* '"' in s
Contains(s, c) == \E i \in 1..Len(s) : s[i] = c

(***************************************************************************)
(* posixpath                                                               *)
(***************************************************************************)
isabs(p) == StartsWith(p, <<SLASH>>)

\* os.path.join(a, b)
join(a, b) ==
    IF StartsWith(b, <<SLASH>>) THEN b
    ELSE IF Len(a) = 0 \/ a[Len(a)] = SLASH THEN a \o b
    ELSE a \o <<SLASH>> \o b

\* os.path.split(p): <<head, tail>>
split(p) ==
    LET i == RFind(p, SLASH) + 1
        head == Slice(p, 0, i)
        tail == Slice(p, i, Len(p))
    IN IF Len(head) > 0 /\ (\E k \in 1..Len(head) : head[k] # SLASH)
       THEN <<RStripSlash(head), tail>>
       ELSE <<head, tail>>

\* genericpath._splitext: the loop that skips the leading dots of the name
RECURSIVE SplitextScan(_, _, _)
SplitextScan(p, filenameIndex, dotIndex) ==
    IF filenameIndex < dotIndex
    THEN IF p[filenameIndex + 1] # DOT
         THEN <<Slice(p, 0, dotIndex), Slice(p, dotIndex, Len(p))>>
         ELSE SplitextScan(p, filenameIndex + 1, dotIndex)
    ELSE <<p, <<>>>>

\* os.path.splitext(p): <<root, ext>>, ext with its leading dot
splitext(p) ==
    LET sepIndex == RFind(p, SLASH)
        dotIndex == RFind(p, DOT)
    IN IF dotIndex > sepIndex THEN SplitextScan(p, sepIndex + 1, dotIndex)
       ELSE <<p, <<>>>>

\* the component loop of os.path.normpath
RECURSIVE NormComps(_, _, _)
NormComps(comps, new_comps, initial_slashes) ==
    IF Len(comps) = 0 THEN new_comps
    ELSE LET comp == Head(comps)
             n == Len(new_comps)
         IN IF comp = <<>> \/ comp = <<DOT>>
            THEN NormComps(Tail(comps), new_comps, initial_slashes)
            ELSE IF comp # <<DOT, DOT>>
                    \/ (initial_slashes = 0 /\ n = 0)
                    \/ (n > 0 /\ new_comps[n] = <<DOT, DOT>>)
            THEN NormComps(Tail(comps), Append(new_comps, comp), initial_slashes)
            ELSE IF n > 0
            THEN NormComps(Tail(comps), SubSeq(new_comps, 1, n - 1), initial_slashes)
            ELSE NormComps(Tail(comps), new_comps, initial_slashes)

\* os.path.normpath(path)
normpath(path) ==
    IF Len(path) = 0 THEN <<DOT>>
    ELSE LET initial_slashes ==
                 IF ~StartsWith(path, <<SLASH>>) THEN 0
                 ELSE IF StartsWith(path, <<SLASH, SLASH>>)
                         /\ ~StartsWith(path, <<SLASH, SLASH, SLASH>>) THEN 2
                 ELSE 1
             body == JoinSlash(NormComps(SplitSlash(path), <<>>, initial_slashes))
             res == [i \in 1..initial_slashes |-> SLASH] \o body
         IN IF Len(res) = 0 THEN <<DOT>> ELSE res

\* the working directory of the process
getcwd == <<SLASH>>

\* os.path.abspath(path)
abspath(path) == normpath(IF isabs(path) THEN path ELSE join(getcwd, path))

\* the component loop of posixpath._joinrealpath, for a tree without
\* symbolic links: every component is kept as it is
RECURSIVE JoinRealpath(_, _)
JoinRealpath(path, rest) ==
    IF Len(rest) = 0 THEN path
    ELSE LET name == Head(rest)
         IN IF name = <<>> \/ name = <<DOT>>
            THEN JoinRealpath(path, Tail(rest))
            ELSE IF name = <<DOT, DOT>>
            THEN IF Len(path) > 0
                 THEN LET sp == split(path)
                      IN IF sp[2] = <<DOT, DOT>>
                         THEN JoinRealpath(join(join(sp[1], <<DOT, DOT>>), <<DOT, DOT>>),
                                           Tail(rest))
                         ELSE JoinRealpath(sp[1], Tail(rest))
                 ELSE JoinRealpath(<<DOT, DOT>>, Tail(rest))
            ELSE JoinRealpath(join(path, name), Tail(rest))

\* os.path.realpath(filename)
realpath(filename) ==
    abspath(IF isabs(filename)
            THEN JoinRealpath(<<SLASH>>, SplitSlash(Tail(filename)))
            ELSE JoinRealpath(<<>>, SplitSlash(filename)))

\* [x for x in s.split("/") if x]
NonEmpty(comps) == SelectSeq(comps, LAMBDA x : Len(x) > 0)

\* len(os.path.commonprefix([a, b])) for two lists of components
CommonLen(a, b) ==
    LET m == IF Len(a) < Len(b) THEN Len(a) ELSE Len(b)
        ok == {i \in 0..m : \A k \in 1..i : a[k] = b[k]}
    IN CHOOSE i \in ok : \A k \in ok : k <= i

\* rel_list = [pardir] * (len(start_list) - i) + path_list[i:]
RelList(start_list, path_list, i) ==
    [k \in 1..(Len(start_list) - i) |-> <<DOT, DOT>>]
    \o SubSeq(path_list, i + 1, Len(path_list))

\* if not rel_list: return curdir;  return join(*rel_list)
RelJoin(rel_list) == IF Len(rel_list) = 0 THEN <<DOT>> ELSE JoinSlash(rel_list)

\* relpath from the two lists of components
RelOfLists(start_list, path_list) ==
    RelJoin(RelList(start_list, path_list, CommonLen(start_list, path_list)))

\* os.path.relpath(path, start)
relpath(path, start) ==
    RelOfLists(NonEmpty(SplitSlash(abspath(start))), NonEmpty(SplitSlash(abspath(path))))

(***************************************************************************)
(* transfercoder's path helpers                                            *)
(***************************************************************************)
\* filter_hidden on one name: kept iff non-empty and not starting with a dot
NotHidden(x) == Len(x) > 0 /\ x[1] # DOT

\* splitext_afterdot(path): <<base, ext>>, the dot goes to the base
splitext_afterdot(path) ==
    LET se == splitext(path)
        base == se[1]
        ext == se[2]
    IN IF Len(ext) > 0 /\ ext[1] = DOT
       THEN <<base \o <<DOT>>, Tail(ext)>>
       ELSE <<base, ext>>

\* is_subpath that takes every path for a subpath
is_subpath_any(path, parent) == TRUE

\* is_subpath(path, parent)
is_subpath(path, parent) ==
    ~StartsWith(Slice(relpath(path, parent), 0, 2), <<DOT, DOT>>)


(***************************************************************************)
(* Configuration values and the file trees of the model                    *)
(***************************************************************************)
MaxFiles == 2   \* most files in the source tree
MaxJobs == 2    \* largest --jobs value tried
MaxTime == 3    \* the clock value of the run; older mtimes are 1..MaxTime
MaxPathLen == 4 \* longest relative path given to find_dest on its own

\* the resolved source_directory and destination_directory
SrcRoot == <<"/", "s">>
DestRoot == <<"/", "d">>

\* Python's None, as a falsy string
None == <<>>

\* flac, ogg, mp3; default target_format 'ogg'
FLAC == <<"f">>
OGG == <<"o">>

\* the relative paths a source tree is drawn from:
\* a.f (to transcode), .c.f (a hidden file), .h/b.m (to copy, in a hidden
\* directory)
SrcUniverse ==
    { <<"a", ".", "f">>,
      <<".", "c", ".", "f">>,
      <<".", "h", "/", "b", ".", "m">> }

\* the relative paths a pre-existing destination file is drawn from:
\* a.o  z.m
DestUniverse ==
    { <<"a", ".", "o">>,
      <<"z", ".", "m">> }

\* every ancestor directory of an absolute path, the root "/" excluded
RECURSIVE Ancestors(_)
Ancestors(p) ==
    LET head == split(p)[1]
    IN IF head = <<SLASH>> \/ head = <<>> \/ head = p THEN {}
       ELSE {head} \cup Ancestors(head)

(***************************************************************************)
(* walk_files: os.walk over the model's file system                        *)
(*   fs.files : absolute path of a regular file -> its mtime               *)
(*   fs.dirs  : the absolute paths of the existing directories             *)
(***************************************************************************)
\* the names os.walk lists in a directory: <<dirs, files>> as sets of names
ListDirs(fs, root) == {split(d)[2] : d \in {x \in fs.dirs : split(x)[1] = root /\ x # root}}
ListFiles(fs, root) == {split(f)[2] : f \in {x \in DOMAIN fs.files : split(x)[1] = root}}

\* filter_hidden(paths)
filter_hidden(paths) == {x \in paths : NotHidden(x)}

\* The directories os.walk(top) visits.  walk_files rebinds its local name
\* `dirs` to the filtered list; the list os.walk itself holds is not changed,
\* so the walk descends into every subdirectory, hidden or not.
RECURSIVE WalkRoots(_, _)
WalkRoots(fs, top) ==
    IF top \notin fs.dirs THEN {}
    ELSE {top} \cup UNION {WalkRoots(fs, join(top, d)) : d \in ListDirs(fs, top)}

\* walk_files(dir, hidden): the set of the paths it yields
walk_files(fs, dir, hidden) ==
    UNION { LET files == IF ~hidden THEN filter_hidden(ListFiles(fs, root))
                         ELSE ListFiles(fs, root)
            IN {join(root, f) : f \in files}
          : root \in WalkRoots(fs, dir) }

(***************************************************************************)
(* DestinationFinder: df is [src_dir, dest_dir, src_exts, dest_ext,        *)
(* include_hidden]                                                         *)
(***************************************************************************)
DestinationFinder(src_dir, dest_dir, src_exts, dest_ext, hidden) ==
    [src_dir |-> realpath(src_dir), dest_dir |-> realpath(dest_dir), src_exts |-> src_exts,
     dest_ext |-> dest_ext, include_hidden |-> hidden]

\* the result of find_dest when it raises ValueError
ValueError == <<"V", "a", "l", "u", "e", "E", "r", "r", "o", "r">>

\* base, ext = splitext_afterdot(src) and the choice of dest_relpath
DestRelpath(df, src, base_ext) ==
    IF Lower(base_ext[2]) \in df.src_exts
    THEN base_ext[1] \o df.dest_ext
    ELSE src

\* find_dest from the point where src is relative to src_dir
FindDestRel(df, src) ==
    join(df.dest_dir, DestRelpath(df, src, splitext_afterdot(src)))

\* find_dest(src)
find_dest(df, src) ==
    IF isabs(src) /\ ~is_subpath(src, df.src_dir) THEN ValueError
    ELSE FindDestRel(df, IF isabs(src) THEN relpath(src, df.src_dir) ELSE src)

walk_source_files(df, fs) == walk_files(fs, df.src_dir, df.include_hidden)

walk_target_files(df, fs) == {find_dest(df, src) : src \in walk_source_files(df, fs)}

walk_source_target_pairs(df, fs) ==
    {<<src, find_dest(df, src)>> : src \in walk_source_files(df, fs)}

walk_existing_dest_files(df, fs) == walk_files(fs, df.dest_dir, df.include_hidden)

\* the difference taken against the source files instead of their targets
walk_extra_dest_files_src(df, fs) ==
    walk_existing_dest_files(df, fs) \ walk_source_files(df, fs)

walk_extra_dest_files(df, fs) ==
    LET existing == walk_existing_dest_files(df, fs)
        target == walk_target_files(df, fs)
    IN {p \in existing : p \notin target}

\* Transfercode.__init__
Transfercode(src, dest, eopts) ==
    [src |-> src, dest |-> dest,
     src_dir |-> split(src)[1], dest_dir |-> split(dest)[1],
     src_ext |-> splitext_afterdot(src)[2], dest_ext |-> splitext_afterdot(dest)[2],
     eopts |-> eopts]

\* transfercodes(eopts): the units; the eopts argument is not passed on
transfercodes(df, fs, eopts) ==
    {Transfercode(pr[1], pr[2], None) : pr \in walk_source_target_pairs(df, fs)}


(***************************************************************************)
(* The file system.  fs.links holds the groups of two or more paths that   *)
(* are names of one inode (hard links); every name of an inode has the     *)
(* inode's mtime                                                           *)
(***************************************************************************)
Now == MaxTime

\* os.path.exists / isfile / isdir
exists(fs, p) == p \in DOMAIN fs.files \/ p \in fs.dirs
isfile(fs, p) == p \in DOMAIN fs.files
isdir(fs, p) == p \in fs.dirs

\* the paths that name the inode of p
Names(fs, p) == {p} \cup UNION {g \in fs.links : p \in g}

\* os.path.samefile(src, dest)
samefile(fs, src, dest) == isfile(fs, src) /\ dest \in Names(fs, src)

\* the link groups once p names its inode no longer
Unlinked(links, p) == {h \in {g \ {p} : g \in links} : Cardinality(h) > 1}

\* p opened for writing where it is (open(p, 'wb'), a tag saved into p): the
\* file is created, or the inode p names is written and stamped with the
\* clock under every one of its names
WriteFile(fs, p) ==
    [fs EXCEPT !.files = [q \in DOMAIN fs.files \cup {p} |->
                             IF q \in Names(fs, p) THEN Now ELSE fs.files[q]]]

\* a new file renamed onto p: p names a new inode, the other names of the
\* old one keep it
ReplaceFile(fs, p) ==
    [fs EXCEPT !.files = [q \in DOMAIN fs.files \cup {p} |->
                             IF q = p THEN Now ELSE fs.files[q]],
               !.links = Unlinked(fs.links, p)]

\* os.link(src, dest): dest becomes another name of src's inode
LinkFile(fs, src, dest) ==
    [fs EXCEPT !.files = [q \in DOMAIN fs.files \cup {dest} |->
                             IF q = dest THEN fs.files[src] ELSE fs.files[q]],
               !.links = {g \in fs.links : src \notin g}
                         \cup {Names(fs, src) \cup {dest}}]

\* os.remove(p): the name goes, the inode stays under its other names
RemoveFile(fs, p) ==
    [fs EXCEPT !.files = [q \in DOMAIN fs.files \ {p} |-> fs.files[q]],
               !.links = Unlinked(fs.links, p)]

(***************************************************************************)
(* Transfercode: one unit                                                  *)
(***************************************************************************)
\* needs_update raises when os.path.getmtime(self.src) finds no file
needs_update_raises(tfc, fs) == exists(fs, tfc.dest) /\ ~isfile(fs, tfc.src)

\* needs_update with >= for >: a destination as old as its source is redone
needs_update_ge(tfc, fs) ==
    IF ~exists(fs, tfc.dest) THEN TRUE
    ELSE fs.files[tfc.src] >= fs.files[tfc.dest]

\* needs_update()
needs_update(tfc, fs) ==
    IF ~exists(fs, tfc.dest) THEN TRUE
    ELSE fs.files[tfc.src] > fs.files[tfc.dest]

\* needs_transcode()
needs_transcode(tfc) == tfc.src_ext # tfc.dest_ext

\* check() that never raises
check_raises_never(tfc, fs) == FALSE

\* check(): TRUE iff it raises IOError
check_raises(tfc, fs) == ~isfile(fs, tfc.src) \/ ~isdir(fs, tfc.dest_dir)

\* the words of the command line of the transcoding tool
PACPL_EXE == <<"p", "a", "c", "p", "l">>
EOPTS_FLAG == <<"-", "-", "e", "o", "p", "t", "s">>
BITRATE_FLAG == <<"-", "-", "b", "i", "t", "r", "a", "t", "e", "=", "1", "6", "0">>
OVERWRITE_FLAG == <<"-", "-", "o", "v", "e", "r", "w", "r", "i", "t", "e">>
KEEP_FLAG == <<"-", "-", "k", "e", "e", "p">>
TO_FLAG == <<"-", "-", "t", "o">>
OUTFILE_FLAG == <<"-", "-", "o", "u", "t", "f", "i", "l", "e">>

\* the list `command` that transcode() hands to call_checked
pacpl_command(tfc) ==
    LET rel_dest == relpath(tfc.dest, tfc.src_dir)
        rel_dest_base == splitext(rel_dest)[1]
    IN <<PACPL_EXE>>
       \o (IF tfc.eopts # None THEN <<EOPTS_FLAG, tfc.eopts>> ELSE <<>>)
       \o <<BITRATE_FLAG, OVERWRITE_FLAG, KEEP_FLAG, TO_FLAG, tfc.dest_ext,
            OUTFILE_FLAG, rel_dest_base, tfc.src>>

(***************************************************************************)
(* The positions of a worker inside transfer.  Each names the outside call *)
(* the worker makes next (a call on the file system, the start of a tool,  *)
(* the wait for it, the hand-over of the result); one step of a worker is  *)
(* that call with the computation that follows it up to the next call.     *)
(*   "queued"      the task is not taken yet                               *)
(*   "check"       line 230: if not dry_run: self.check()                  *)
(*   "call_pacpl"  line 183, the tool is started; "pacpl": the wait for it *)
(*   "copy_tags"   line 186       "copy_mode"  line 187 or 210             *)
(*   "link"        line 197                                                *)
(*   "call_rsync"  line 203, the tool is started; "rsync": the wait for it *)
(*   "copyfile"    line 209                                                *)
(*   "except"      line 236: an exception was raised inside the try block  *)
(*   "return"      line 241, with error = 0                                *)
(*   "returned"    transfer is over                                        *)
(***************************************************************************)
\* transcode with the double quote looked for after the dry_run test
transcode_quote_late(tfc, dry_run) ==
    IF dry_run THEN "return"
    ELSE IF Contains(tfc.src, QUOTE) THEN "except"
    ELSE "call_pacpl"

\* transcode(dry_run) up to its call of the tool
transcode(tfc, dry_run) ==
    IF Contains(tfc.src, QUOTE) THEN "except"
    ELSE IF dry_run THEN "return"
    ELSE "call_pacpl"

\* copy without its dry_run test
copy_always(tfc, dry_run) == "link"

\* copy(dry_run) up to its first copy method
copy(tfc, dry_run) == IF dry_run THEN "return" ELSE "link"

\* copy that goes on to rsync and to copyfile whether or not a method before
\* them has succeeded
CopyMethodsNoStop(method, success, rsync_exe_) ==
    CASE method = "link" -> IF rsync_exe_ THEN "call_rsync" ELSE "copyfile"
      [] method = "rsync" -> "copyfile"
      [] OTHER -> IF success THEN "copy_mode" ELSE "except"

\* copy past its dry_run test: where it goes on once a method has succeeded
\* or failed. link, then rsync when the tool was found, then copyfile and
\* copy_mode; the exception of copyfile is the only one that leaves copy
CopyMethods(method, success, rsync_exe_) ==
    CASE method = "link" -> IF success THEN "return"
                            ELSE IF rsync_exe_ THEN "call_rsync" ELSE "copyfile"
      [] method = "rsync" -> IF success THEN "return" ELSE "copyfile"
      [] OTHER -> IF success THEN "copy_mode" ELSE "except"

\* the try block of transfer up to the first call past check(): where the
\* worker is after `if not dry_run: self.check()`
TryTransfer(tfc, dry_run, fs) ==
    IF ~dry_run /\ check_raises(tfc, fs) THEN "except"
    ELSE IF needs_transcode(tfc) THEN transcode(tfc, dry_run)
    ELSE copy(tfc, dry_run)

\* the test of transfer without `force or`
StaleOnly(tfc, force, fs) == needs_update(tfc, fs)

\* `force or self.needs_update()`
ForcedOrStale(tfc, force, fs) == force \/ needs_update(tfc, fs)

\* transfer(force, dry_run) up to its try statement, the test
\* `force or self.needs_update()`: "raise" when needs_update raises, "act"
\* when the try block is entered, "skip" when it is not
TransferTest(tfc, force, fs) ==
    IF ~force /\ needs_update_raises(tfc, fs) THEN "raise"
    ELSE IF ForcedOrStale(tfc, force, fs) THEN "act"
    ELSE "skip"

\* what transfer hands back without entering its try block: error 0, or the
\* exception needs_update raised
TransferUntried(u, test) ==
    [state |-> IF test = "raise" THEN "RAISED" ELSE "SKIPPED",
     result |-> [src |-> u, raised |-> test = "raise", value |-> 0]]

\* what transfer hands back after its try block, left by the except clause
\* (error = 1) or at its end: the value returned and the state of the unit
TransferTried(tfc, position) ==
    [error |-> IF position = "except" THEN 1 ELSE 0,
     state |-> IF position = "except" THEN "FAILED"
               ELSE IF needs_transcode(tfc) THEN "TRANSCODED" ELSE "COPIED"]

\* create_dirs that creates nothing
create_dirs_none(fs, dirs) == fs

\* create_dirs(dirs): os.makedirs makes the missing ancestors too
create_dirs(fs, dirs) ==
    [fs EXCEPT !.dirs = fs.dirs \cup dirs \cup UNION {Ancestors(d) : d \in dirs}]

\* positive_int(value): TRUE iff the value is accepted
positive_int(value) == value > 0


(***************************************************************************)
(* The program: the __main__ block (parse_options, main, sys.exit) with    *)
(* the worker pool of main                                                 *)
(***************************************************************************)
VARIABLES
    options,      \* the parsed command line: jobs, dry_run, force, delete, ...
    rsync_exe,    \* TRUE iff find_executable("rsync") found the tool
    fs,           \* the file system: [files, dirs, links]
    pc,           \* where the main process is
    tfcs,         \* main's list `transfercodes`
    ustate,       \* unit (by src) -> PENDING, RUNNING or its terminal state
    at,           \* unit (by src) -> the position of its worker in transfer
    tool,         \* unit (by src) -> the tool its worker started: "none",
                  \* "running", or how it ended: "ok", "noout", "fail"
    ulog,         \* unit (by src) -> the calls its transfer made, in order
    results,      \* the pool's result queue, in completion order
    errors,       \* main's local `errors`
    todelete,     \* the files the delete loop has still to visit
    interrupted,  \* TRUE once KeyboardInterrupt reached main
    status,       \* the exit status of the process, -1 while it runs
    run,          \* 1 in the first run, 2 in a run repeated over the result
    first,        \* what the first run was, kept for the second
    fs0,          \* the file system as the current run found it
    arg,          \* find_dest on its own: the source path and the -i set given
    out           \* find_dest on its own: the path returned, <<>> before the call

vars == <<options, rsync_exe, fs, pc, tfcs, ustate, at, tool, ulog, results, errors,
          todelete, interrupted, status, run, first, fs0, arg, out>>

\* the variables of a call of find_dest on its own
purevars == <<arg, out>>

\* what only main writes once the pool works: its position, its tally, the
\* delete loop, the exit status
mainvars == <<pc, errors, todelete, interrupted, status>>

\* what no step of a run changes: the command line, the tools found, the
\* record of the run before
runvars == <<options, rsync_exe, tfcs, run, first, fs0>>

\* the values --jobs may be given on the command line
JobValues == 0..MaxJobs

\* the values of -i: the default kind of set, and one that holds the target
FormatSets == {{FLAC}, {FLAC, OGG}}

Options ==
    [jobs : JobValues, dry_run : BOOLEAN, force : BOOLEAN, delete : BOOLEAN,
     include_hidden : BOOLEAN, transcode_formats : FormatSets,
     target_format : {OGG}, extra_encoder_options : {None}]

\* the source trees: 1..MaxFiles files of SrcUniverse, all last modified
\* one tick before the run
SrcTrees == {S \in SUBSET SrcUniverse : Cardinality(S) \in 1..MaxFiles}

\* the destination tree before the run: empty, or one file of DestUniverse
\* that is older than (1..), as old as (MaxTime - 1) or newer than the sources
\* The age of a file matters only when it is the destination of a source
\* file (a.o): the file that is no source's destination is old
DestTrees ==
    {<<>>} \cup {<<f, t>> : f \in {<<"a", ".", "o">>}, t \in 1..MaxTime}
           \cup {<<f, 1>> : f \in DestUniverse}

InitialFs(tree, pre) ==
    LET srcs == {join(SrcRoot, f) : f \in tree}
        dests == IF pre = <<>> THEN {} ELSE {join(DestRoot, pre[1])}
    IN [files |-> [p \in srcs \cup dests |->
                      IF p \in srcs THEN MaxTime - 1 ELSE pre[2]],
        dirs |-> {SrcRoot, DestRoot}
                 \cup UNION {Ancestors(p) : p \in srcs \cup dests},
        links |-> {}]

NoFirst == [ran |-> FALSE, clean |-> FALSE, dry_run |-> FALSE, methods |-> {}]

Init ==
    /\ options \in Options
    /\ rsync_exe \in BOOLEAN
    /\ \E tree \in SrcTrees, pre \in DestTrees : fs = InitialFs(tree, pre)
    /\ fs0 = fs
    /\ pc = "parse"
    /\ tfcs = {}
    /\ ustate = <<>>
    /\ at = <<>>
    /\ tool = <<>>
    /\ ulog = <<>>
    /\ results = <<>>
    /\ errors = 0
    /\ todelete = {}
    /\ interrupted = FALSE
    /\ status = -1
    /\ run = 1
    /\ first = NoFirst
    /\ arg = <<>>
    /\ out = <<>>

\* the DestinationFinder main builds
df == DestinationFinder(realpath(SrcRoot), realpath(DestRoot), options.transcode_formats,
                        options.target_format, options.include_hidden)

Unit(u) == CHOOSE t \in tfcs : t.src = u
Units == {t.src : t \in tfcs}
Running == {u \in Units : ustate[u] = "RUNNING"}
Terminal == {"SKIPPED", "COPIED", "TRANSCODED", "FAILED", "RAISED"}

\* parse_options: argparse ends the process with status 2 on a bad --jobs
ParseReject ==
    /\ pc = "parse"
    /\ ~positive_int(options.jobs)
    /\ pc' = "usage_error"
    /\ status' = 2
    /\ UNCHANGED <<fs, ustate, at, tool, ulog, results, errors, todelete, interrupted>>
    /\ UNCHANGED runvars
    /\ UNCHANGED purevars

ParseAccept ==
    /\ pc = "parse"
    /\ positive_int(options.jobs)
    /\ pc' = "main"
    /\ UNCHANGED <<fs, ustate, at, tool, ulog, results, errors, todelete, interrupted,
                   status>>
    /\ UNCHANGED runvars
    /\ UNCHANGED purevars

\* what main returns when the target format is one of the transcode formats
ConfigErrorStatus == 1

\* the test of the configuration made after the directories are created
MainConfigErrorLate ==
    /\ pc = "main"
    /\ options.target_format \in options.transcode_formats
    /\ pc' = "config_error"
    /\ status' = ConfigErrorStatus
    /\ fs' = create_dirs(fs, {t.dest_dir : t \in transfercodes(df, fs, None)})
    /\ UNCHANGED <<ustate, at, tool, ulog, results, errors, todelete, interrupted>>
    /\ UNCHANGED runvars
    /\ UNCHANGED purevars

\* main: target_format in transcode_formats -> return 1
MainConfigError ==
    /\ pc = "main"
    /\ options.target_format \in options.transcode_formats
    /\ pc' = "config_error"
    /\ status' = ConfigErrorStatus
    /\ UNCHANGED <<fs, ustate, at, tool, ulog, results, errors, todelete, interrupted>>
    /\ UNCHANGED runvars
    /\ UNCHANGED purevars

\* main up to the creation of the pool: enumerate the units, create the
\* destination directories unless dry_run, hand every unit to the pool
MainSetup ==
    /\ pc = "main"
    /\ options.target_format \notin options.transcode_formats
    /\ LET transfercodes_ == transfercodes(df, fs, options.extra_encoder_options)
       IN IF \E t \in transfercodes_ : t.dest = ValueError
          THEN \* find_dest raised: the exception leaves main
               /\ pc' = "crashed"
               /\ status' = 1
               /\ UNCHANGED <<tfcs, ustate, at, tool, ulog, fs>>
          ELSE /\ tfcs' = transfercodes_
               /\ ustate' = [u \in {t.src : t \in transfercodes_} |-> "PENDING"]
               /\ at' = [u \in {t.src : t \in transfercodes_} |-> "queued"]
               /\ tool' = [u \in {t.src : t \in transfercodes_} |-> "none"]
               /\ ulog' = [u \in {t.src : t \in transfercodes_} |-> <<>>]
               /\ fs' = IF ~options.dry_run
                        THEN create_dirs(fs, {t.dest_dir : t \in transfercodes_})
                        ELSE fs
               /\ pc' = "pool"
               /\ status' = status
    /\ errors' = 0
    /\ UNCHANGED <<options, rsync_exe, results, todelete, interrupted,
                   run, first, fs0>>
    /\ UNCHANGED purevars

\* a worker of Pool(jobs) takes the next task: start_transfer(tfc) calls
\* tfc.transfer(force, dry_run), which runs up to its try statement. The unit
\* is skipped (result 0), or needs_update raises (the exception is put on
\* the result queue), or the worker goes on inside the try block
WorkerStart(u) ==
    /\ pc = "pool"
    /\ ustate[u] = "PENDING"
    /\ Cardinality(Running) < options.jobs
    /\ LET test == TransferTest(Unit(u), options.force, fs)
       IN IF test = "act"
          THEN /\ ustate' = [ustate EXCEPT ![u] = "RUNNING"]
               /\ at' = [at EXCEPT ![u] = "check"]
               /\ results' = results
          ELSE /\ ustate' = [ustate EXCEPT ![u] = TransferUntried(u, test).state]
               /\ at' = [at EXCEPT ![u] = "returned"]
               /\ results' = Append(results, TransferUntried(u, test).result)
    /\ UNCHANGED <<fs, tool, ulog>>
    /\ UNCHANGED mainvars
    /\ UNCHANGED runvars
    /\ UNCHANGED purevars

\* the worker of unit u is at position p and has not been terminated
At(u, p) == pc = "pool" /\ ustate[u] = "RUNNING" /\ at[u] = p

\* what a step of u's worker inside the try block leaves: the calls it made
\* added to the log, its next position, the state of its tool, the files
WorkerStep(u, calls, position, tool_, fs_) ==
    /\ ulog' = [ulog EXCEPT ![u] = @ \o calls]
    /\ at' = [at EXCEPT ![u] = position]
    /\ tool' = [tool EXCEPT ![u] = tool_]
    /\ fs' = fs_
    /\ UNCHANGED <<ustate, results>>
    /\ UNCHANGED mainvars
    /\ UNCHANGED runvars
    /\ UNCHANGED purevars

\* `if not dry_run: self.check()`, then transcode or copy up to its first
\* outside call
WorkerCheck(u) ==
    /\ At(u, "check")
    /\ WorkerStep(u, IF options.dry_run THEN <<>> ELSE <<"check">>,
                  TryTransfer(Unit(u), options.dry_run, fs), "none", fs)

\* call_checked(command) starts the transcoding tool
WorkerCallPacpl(u) ==
    /\ At(u, "call_pacpl")
    /\ WorkerStep(u, <<"pacpl">>, "pacpl", "running", fs)

\* The transcoding tool, a process of its own, reads src and writes dest.
\* how is what it does: "write" (it opens dest for writing where it is and
\* exits 0), "rename" (it writes a new file, renames it onto dest and exits
\* 0), "noout" (it exits 0 and has written nothing), "fail" (it exits with
\* an error and has written nothing), "cut" (it exits with an error after it
\* has opened dest for writing). terminate() ends the workers, not the tools
\* they wait for: the tool acts whether or not main still runs
PacplRuns(u, how) ==
    /\ at[u] = "pacpl"
    /\ tool[u] = "running"
    /\ how \in {"write", "rename", "cut"} =>
          (isfile(fs, u) /\ isdir(fs, Unit(u).dest_dir))
    /\ fs' = CASE how \in {"write", "cut"} -> WriteFile(fs, Unit(u).dest)
               [] how = "rename" -> ReplaceFile(fs, Unit(u).dest)
               [] OTHER -> fs
    /\ tool' = [tool EXCEPT ![u] = CASE how \in {"write", "rename"} -> "ok"
                                     [] how = "noout" -> "noout"
                                     [] OTHER -> "fail"]
    /\ UNCHANGED <<ustate, at, ulog, results>>
    /\ UNCHANGED mainvars
    /\ UNCHANGED runvars
    /\ UNCHANGED purevars

\* the log with its last entry, the call of the transcoding tool, marked as
\* one that left no output
MarkNoOutput(log) == SubSeq(log, 1, Len(log) - 1) \o <<"pacpl_noout">>

\* call_checked returns or raises CalledProcessError; then
\* `if not os.path.isfile(self.dest): raise`
WorkerPacplDone(u) ==
    /\ At(u, "pacpl")
    /\ tool[u] \in {"ok", "noout", "fail"}
    /\ ulog' = [ulog EXCEPT ![u] = IF tool[u] = "noout" THEN MarkNoOutput(@) ELSE @]
    /\ at' = [at EXCEPT ![u] = IF tool[u] = "fail" \/ ~isfile(fs, Unit(u).dest)
                               THEN "except" ELSE "copy_tags"]
    /\ tool' = [tool EXCEPT ![u] = "none"]
    /\ UNCHANGED <<fs, ustate, results>>
    /\ UNCHANGED mainvars
    /\ UNCHANGED runvars
    /\ UNCHANGED purevars

\* copy_tags(self.src, self.dest): the tag library reads both files and
\* saves the tags into dest where it is; ok is FALSE when it raises, which
\* copy_tags swallows
WorkerCopyTags(u, ok) ==
    /\ At(u, "copy_tags")
    /\ WorkerStep(u, <<"copy_tags">>, "copy_mode", "none",
                  IF ok /\ isfile(fs, u) /\ isfile(fs, Unit(u).dest)
                  THEN WriteFile(fs, Unit(u).dest) ELSE fs)

\* copy_mode(self.src, self.dest) changes no file and no mtime, and
\* swallows its own failure; transcode or copy returns
WorkerCopyMode(u) ==
    /\ At(u, "copy_mode")
    /\ WorkerStep(u, <<"copy_mode">>, "return", "none", fs)

\* os.link(self.src, self.dest); ok is FALSE when the call fails for a
\* reason outside the model (another file system, no permission). It fails
\* when dest exists
WorkerLink(u, ok) ==
    /\ At(u, "link")
    /\ LET link_ok == /\ ok /\ isfile(fs, u) /\ isdir(fs, Unit(u).dest_dir)
                      /\ ~exists(fs, Unit(u).dest)
       IN WorkerStep(u, IF link_ok THEN <<"link">> ELSE <<"link", "failed">>,
                     CopyMethods("link", link_ok, rsync_exe), "none",
                     IF link_ok THEN LinkFile(fs, u, Unit(u).dest) ELSE fs)

\* call_checked([rsync_exe, "-q", "-p", src, dest]) starts rsync
WorkerCallRsync(u) ==
    /\ At(u, "call_rsync")
    /\ WorkerStep(u, <<"rsync">>, "rsync", "running", fs)

\* rsync, a process of its own: it writes a new file and renames it onto
\* dest, or fails and leaves dest as it was
RsyncRuns(u, ok) ==
    /\ at[u] = "rsync"
    /\ tool[u] = "running"
    /\ LET rsync_ok == ok /\ isfile(fs, u) /\ isdir(fs, Unit(u).dest_dir)
       IN /\ fs' = IF rsync_ok THEN ReplaceFile(fs, Unit(u).dest) ELSE fs
          /\ tool' = [tool EXCEPT ![u] = IF rsync_ok THEN "ok" ELSE "fail"]
    /\ UNCHANGED <<ustate, at, ulog, results>>
    /\ UNCHANGED mainvars
    /\ UNCHANGED runvars
    /\ UNCHANGED purevars

\* call_checked returns or raises; `except Exception: success = False`
WorkerRsyncDone(u) ==
    /\ At(u, "rsync")
    /\ tool[u] \in {"ok", "fail"}
    /\ WorkerStep(u, IF tool[u] = "ok" THEN <<>> ELSE <<"failed">>,
                  CopyMethods("rsync", tool[u] = "ok", rsync_exe), "none", fs)

\* shutil.copyfile(self.src, self.dest): it raises when both name one file,
\* opens src, opens dest for writing where it is, copies. how is "ok",
\* "fail" (it raises before dest is opened) or "partial" (it raises after)
WorkerCopyfile(u, how) ==
    /\ At(u, "copyfile")
    /\ LET possible == /\ isfile(fs, u) /\ isdir(fs, Unit(u).dest_dir)
                       /\ ~samefile(fs, u, Unit(u).dest)
           copyfile_ok == how = "ok" /\ possible
           copyfile_cut == how = "partial" /\ possible
       IN WorkerStep(u, IF copyfile_ok THEN <<"copyfile">> ELSE <<"copyfile", "failed">>,
                     CopyMethods("copyfile", copyfile_ok, rsync_exe), "none",
                     IF copyfile_ok \/ copyfile_cut THEN WriteFile(fs, Unit(u).dest)
                     ELSE fs)

\* the end of transfer: the except clause sets error = 1, `return error`;
\* the pool puts the value on the result queue
WorkerReturn(u) ==
    /\ pc = "pool"
    /\ ustate[u] = "RUNNING"
    /\ at[u] \in {"except", "return"}
    /\ ustate' = [ustate EXCEPT ![u] = TransferTried(Unit(u), at[u]).state]
    /\ results' = Append(results, [src |-> u, raised |-> FALSE,
                                   value |-> TransferTried(Unit(u), at[u]).error])
    /\ at' = [at EXCEPT ![u] = "returned"]
    /\ UNCHANGED <<fs, tool, ulog>>
    /\ UNCHANGED mainvars
    /\ UNCHANGED runvars
    /\ UNCHANGED purevars

\* errors = result for errors += result
RECURSIVE SumResultsAssign(_, _)
SumResultsAssign(rs, acc) ==
    IF Len(rs) = 0 \/ Head(rs).raised THEN acc
    ELSE SumResultsAssign(Tail(rs), Head(rs).value)

\* errors += result over the queue; stops at the first result that is an exception
RECURSIVE SumResults(_, _)
SumResults(rs, acc) ==
    IF Len(rs) = 0 \/ Head(rs).raised THEN acc
    ELSE SumResults(Tail(rs), acc + Head(rs).value)

\* if delete: the set walk_extra_dest_files() the loop goes over; under
\* dry_run its files are only logged
PruneSet ==
    IF options.delete /\ ~options.dry_run THEN walk_extra_dest_files(df, fs) ELSE {}

\* main's return value: 1 if errors > 0 else 0
ReturnValue(errors_) == IF errors_ > 0 THEN 1 ELSE 0

\* The end of main once the try statement is left with errors_ counted and
\* `remaining` files still to delete: the loop goes on, or main logs the
\* summary and returns
AfterLoop(errors_, remaining) ==
    /\ todelete' = remaining
    /\ IF remaining = {}
       THEN pc' = "done" /\ status' = ReturnValue(errors_)
       ELSE pc' = "deleting" /\ status' = status

\* transcode_pool.join() returns when every task is done; then
\* for i, result in enumerate(results, start=1): errors += result
\* An exception a task raised is raised again there and leaves main;
\* otherwise main goes on to the delete loop.
MainCollect ==
    /\ pc = "pool"
    /\ \A u \in Units : ustate[u] \in Terminal
    /\ errors' = SumResults(results, errors)
    /\ results' = <<>>
    /\ IF \E k \in 1..Len(results) : results[k].raised
       THEN pc' = "crashed" /\ status' = 1 /\ todelete' = todelete
       ELSE AfterLoop(SumResults(results, errors), PruneSet)
    /\ UNCHANGED <<fs, ustate, at, tool, ulog, interrupted>>
    /\ UNCHANGED runvars
    /\ UNCHANGED purevars

\* KeyboardInterrupt inside the try statement: while main waits in join()
\* (k = 0, nothing summed yet), or in the loop over the results after join()
\* has returned, when k of them were added to errors. The pool is
\* terminated: every worker stops where it is, the results not yet read are
\* dropped, and main goes on to the delete loop
Interrupt ==
    /\ pc = "pool"
    /\ \E k \in 0..Len(results) :
          /\ k > 0 => \A u \in Units : ustate[u] \in Terminal
          /\ \A i \in 1..k : ~results[i].raised
          /\ errors' = SumResults(SubSeq(results, 1, k), errors)
          /\ AfterLoop(SumResults(SubSeq(results, 1, k), errors), PruneSet)
    /\ interrupted' = TRUE
    /\ results' = <<>>
    /\ UNCHANGED <<fs, ustate, at, tool, ulog>>
    /\ UNCHANGED runvars
    /\ UNCHANGED purevars

\* os.remove(f) for one file of the set; a failure raises OSError out of main
DeleteOne(f, ok) ==
    /\ pc = "deleting"
    /\ f \in todelete
    /\ IF ok
       THEN /\ fs' = RemoveFile(fs, f)
            /\ AfterLoop(errors, todelete \ {f})
       ELSE /\ fs' = fs
            /\ todelete' = todelete
            /\ pc' = "crashed"
            /\ status' = 1
    /\ UNCHANGED <<ustate, at, tool, ulog, results, errors, interrupted>>
    /\ UNCHANGED runvars
    /\ UNCHANGED purevars

\* what produced the destination of a unit, read off the calls it made
Method(log) ==
    IF "pacpl" \in {log[i] : i \in 1..Len(log)} THEN "pacpl"
    ELSE IF "pacpl_noout" \in {log[i] : i \in 1..Len(log)} THEN "pacpl_noout"
    ELSE IF "copyfile" \in {log[i] : i \in 1..Len(log)} THEN "copyfile"
    ELSE IF "rsync" \in {log[i] : i \in 1..Len(log)} THEN "rsync"
    ELSE IF "link" \in {log[i] : i \in 1..Len(log)} THEN "link"
    ELSE "none"

\* after a run that was not interrupted and reported no error, the program
\* is run a second time over what the first run left, with the same command
\* line but for --force
Rerun ==
    /\ pc = "done"
    /\ run = 1
    /\ ~interrupted
    /\ errors = 0
    /\ run' = 2
    /\ first' = [ran |-> TRUE, clean |-> ~interrupted /\ errors = 0,
                 dry_run |-> options.dry_run,
                 methods |-> {Method(ulog[u]) : u \in Units}]
    /\ options' = [options EXCEPT !.force = FALSE]
    /\ fs0' = fs
    /\ pc' = "parse"
    /\ tfcs' = {}
    /\ ustate' = <<>>
    /\ at' = <<>>
    /\ tool' = <<>>
    /\ ulog' = <<>>
    /\ results' = <<>>
    /\ errors' = 0
    /\ todelete' = {}
    /\ interrupted' = FALSE
    /\ status' = -1
    /\ UNCHANGED <<rsync_exe, fs>>
    /\ UNCHANGED purevars

\* the outcomes of the transcoding tool and of copyfile
PacplOutcomes == {"write", "rename", "noout", "fail", "cut"}
CopyfileOutcomes == {"ok", "fail", "partial"}

\* a step of the worker that has unit u
WorkerNext(u) ==
    \/ WorkerStart(u)
    \/ WorkerCheck(u)
    \/ WorkerCallPacpl(u)
    \/ WorkerPacplDone(u)
    \/ \E ok \in BOOLEAN : WorkerCopyTags(u, ok)
    \/ WorkerCopyMode(u)
    \/ \E ok \in BOOLEAN : WorkerLink(u, ok)
    \/ WorkerCallRsync(u)
    \/ WorkerRsyncDone(u)
    \/ \E how \in CopyfileOutcomes : WorkerCopyfile(u, how)
    \/ WorkerReturn(u)

\* a step of the tool that u's worker started
ToolNext(u) ==
    \/ \E how \in PacplOutcomes : PacplRuns(u, how)
    \/ \E ok \in BOOLEAN : RsyncRuns(u, ok)

Next ==
    \/ ParseReject
    \/ ParseAccept
    \/ MainConfigError
    \/ MainSetup
    \/ \E u \in Units : WorkerNext(u)
    \/ \E u \in Units : ToolNext(u)
    \/ MainCollect
    \/ Interrupt
    \/ \E f \in todelete, ok \in BOOLEAN : DeleteOne(f, ok)

Spec == Init /\ [][Next]_vars

\* Something outside the program removes a source file while the pool works
EnvVanish(u) ==
    /\ pc = "pool"
    /\ ustate[u] \in {"PENDING", "RUNNING"}
    /\ u \in DOMAIN fs.files
    /\ fs' = RemoveFile(fs, u)
    /\ UNCHANGED <<ustate, at, tool, ulog, results>>
    /\ UNCHANGED mainvars
    /\ UNCHANGED runvars
    /\ UNCHANGED purevars

\* Something outside the program removes the empty destination directory of
\* a unit that has not ended yet
EnvRmdir(u) ==
    /\ pc = "pool"
    /\ ustate[u] \in {"PENDING", "RUNNING"}
    /\ LET d == Unit(u).dest_dir
       IN /\ d \in fs.dirs
          /\ \A p \in DOMAIN fs.files \cup fs.dirs : ~StartsWith(p, d \o <<SLASH>>)
          /\ fs' = [fs EXCEPT !.dirs = fs.dirs \ {d}]
    /\ UNCHANGED <<ustate, at, tool, ulog, results>>
    /\ UNCHANGED mainvars
    /\ UNCHANGED runvars
    /\ UNCHANGED purevars

\* a run without --delete
InitEnvDirs == Init /\ ~options.delete

\* a run that is not interrupted, during which source files and destination
\* directories may vanish
NextEnvDirs ==
    \/ ParseReject
    \/ ParseAccept
    \/ MainConfigError
    \/ MainSetup
    \/ \E u \in Units : WorkerNext(u)
    \/ \E u \in Units : ToolNext(u)
    \/ MainCollect
    \/ \E u \in Units : EnvVanish(u)
    \/ \E u \in Units : EnvRmdir(u)

SpecEnvDirs == InitEnvDirs /\ [][NextEnvDirs]_vars

(***************************************************************************)
(* find_dest on its own: the inputs are every relative path of up to       *)
(* MaxPathLen characters, alone and under the source root                  *)
(***************************************************************************)
PathAlphabet == {"a", "f", "F", DOT, SLASH}

RelPaths == UNION {[1..k -> PathAlphabet] : k \in 1..MaxPathLen}

PathInputs == RelPaths \cup {join(SrcRoot, r) : r \in RelPaths}

\* the sets of transcode extensions a finder is built with
PathFormatSets == FormatSets \cup {{<<"F">>}}

\* the ways the two roots are written when a finder is built: as they
\* are, with a trailing slash, with two leading slashes, relative to the
\* working directory, with a dot or a dot-dot component
RootSpellings ==
    { <<SrcRoot, DestRoot>>,
      <<SrcRoot \o <<SLASH>>, DestRoot \o <<SLASH>> >>,
      << <<SLASH>> \o SrcRoot, DestRoot>>,
      <<Tail(SrcRoot), Tail(DestRoot)>>,
      <<SrcRoot \o <<SLASH, DOT, DOT>> \o SrcRoot, DestRoot \o <<SLASH, DOT>> >> }

InitPath ==
    /\ arg \in [src : PathInputs, src_exts : PathFormatSets, roots : RootSpellings]
    /\ out = <<>>
    /\ pc = "find_dest"
    /\ options = [jobs |-> 1, dry_run |-> FALSE, force |-> FALSE, delete |-> FALSE,
                  include_hidden |-> FALSE, transcode_formats |-> {FLAC},
                  target_format |-> OGG, extra_encoder_options |-> None]
    /\ rsync_exe = FALSE
    /\ fs = [files |-> <<>>, dirs |-> {SrcRoot, DestRoot}, links |-> {}]
    /\ fs0 = fs
    /\ tfcs = {}
    /\ ustate = <<>>
    /\ at = <<>>
    /\ tool = <<>>
    /\ ulog = <<>>
    /\ results = <<>>
    /\ errors = 0
    /\ todelete = {}
    /\ interrupted = FALSE
    /\ status = -1
    /\ run = 1
    /\ first = NoFirst

\* df.find_dest(arg.src) for a finder built with the roots and the -i set
\* of arg
CallFindDest ==
    /\ pc = "find_dest"
    /\ out' = find_dest(DestinationFinder(arg.roots[1], arg.roots[2], arg.src_exts,
                                          options.target_format, FALSE), arg.src)
    /\ pc' = "returned"
    /\ UNCHANGED <<options, rsync_exe, fs, tfcs, ustate, at, tool, ulog, results,
                   errors, todelete, interrupted, status, run, first, fs0, arg>>

NextPath == CallFindDest

SpecPath == InitPath /\ [][NextPath]_vars

\* two runs in a row
NextTwice == Next \/ Rerun

SpecTwice == Init /\ [][NextTwice]_vars

(***************************************************************************)
(* A run with extra encoder options, over source trees whose names are     *)
(* awkward: a file already in the target format beside one to transcode,   *)
(* and a file with a double quote in its name                              *)
(***************************************************************************)
\* the value of -E
EncoderOptions == <<"-", "q">>

WideOptions == {[o EXCEPT !.extra_encoder_options = EncoderOptions] : o \in Options}

\* a.f  a.o  q".f
NameUniverse ==
    { <<"a", ".", "f">>,
      <<"a", ".", "o">>,
      <<"q", QUOTE, ".", "f">> }

NameTrees == {S \in SUBSET NameUniverse : Cardinality(S) \in 1..MaxFiles}

InitWide ==
    /\ options \in WideOptions
    /\ rsync_exe \in BOOLEAN
    /\ \E tree \in NameTrees, pre \in DestTrees : fs = InitialFs(tree, pre)
    /\ fs0 = fs
    /\ pc = "parse"
    /\ tfcs = {}
    /\ ustate = <<>>
    /\ at = <<>>
    /\ tool = <<>>
    /\ ulog = <<>>
    /\ results = <<>>
    /\ errors = 0
    /\ todelete = {}
    /\ interrupted = FALSE
    /\ status = -1
    /\ run = 1
    /\ first = NoFirst
    /\ arg = <<>>
    /\ out = <<>>

SpecWide == InitWide /\ [][Next]_vars

(***************************************************************************)
(* copy_tags on its own.  The tags of a file are a function from tag names *)
(* to values, as the tag library hands them out; AudioFile is the view of  *)
(* them that hides the blacklisted names                                   *)
(***************************************************************************)
MaxTags == 2
MaxTagValue == 2

\* blacklist_regexes: 'encoded', 'replaygain', '^~'
ENCODED == <<"e", "n", "c", "o", "d", "e", "d">>
REPLAYGAIN == <<"r", "e", "p", "l", "a", "y", "g", "a", "i", "n">>
TILDE == "~"

\* re.search(pattern, item) for a pattern of plain characters
Search(pattern, item) ==
    \E i \in 1..(Len(item) - Len(pattern) + 1) :
        SubSeq(item, i, i + Len(pattern) - 1) = pattern

\* AudioFile.blacklisted without the '^~' pattern
blacklisted_no_tilde(item) ==
    Search(ENCODED, item) \/ Search(REPLAYGAIN, item)

\* AudioFile.blacklisted(item)
blacklisted(item) ==
    \/ Search(ENCODED, item)
    \/ Search(REPLAYGAIN, item)
    \/ (Len(item) > 0 /\ item[1] = TILDE)

\* AudioFile.__getitem__: None (with a warning) for a blacklisted name
getitem(data, item) == IF blacklisted(item) THEN None ELSE data[item]

\* AudioFile.__setitem__
setitem(data, item, value) ==
    IF blacklisted(item) THEN data
    ELSE [k \in DOMAIN data \cup {item} |-> IF k = item THEN value ELSE data[k]]

\* AudioFile.__delitem__
delitem(data, item) ==
    IF blacklisted(item) THEN data
    ELSE [k \in DOMAIN data \ {item} |-> data[k]]

\* AudioFile.__iter__
iter(data) == {k \in DOMAIN data : ~blacklisted(k)}

\* MutableMapping.clear(): popitem() until iteration finds no key
RECURSIVE clear(_)
clear(data) ==
    IF iter(data) = {} THEN data
    ELSE LET key == CHOOSE k \in iter(data) : TRUE
         IN clear(delitem(data, key))

\* MutableMapping.update(other): for key in other: self[key] = other[key]
RECURSIVE UpdateKeys(_, _, _)
UpdateKeys(data, other, keys) ==
    IF keys = {} THEN data
    ELSE LET key == CHOOSE k \in keys : TRUE
         IN UpdateKeys(setitem(data, key, getitem(other, key)), other, keys \ {key})

update(data, other) == UpdateKeys(data, other, iter(other))

\* copy_tags(src, dest): the tags of dest afterwards. ok is FALSE when the tag
\* library raises (a file it cannot read, a write that fails): the exception
\* is swallowed and dest keeps the tags it had
copy_tags(src_tags, dest_tags, ok) ==
    IF ok THEN update(clear(dest_tags), src_tags) ELSE dest_tags

\* title  t~  encodedby  x_replaygain  ~t
TagNames ==
    { <<"t", "i", "t", "l", "e">>,
      <<"t", "~">>,
      <<"e", "n", "c", "o", "d", "e", "d", "b", "y">>,
      <<"x", "_", "r", "e", "p", "l", "a", "y", "g", "a", "i", "n">>,
      <<"~", "t">> }

\* the tags a file may hold: up to MaxTags names, each with a value
TagSets ==
    UNION {[names -> 1..MaxTagValue] :
              names \in {S \in SUBSET TagNames : Cardinality(S) <= MaxTags}}

InitTags ==
    /\ arg \in [src : TagSets, dest : TagSets, ok : BOOLEAN]
    /\ out = <<>>
    /\ pc = "copy_tags"
    /\ options = [jobs |-> 1, dry_run |-> FALSE, force |-> FALSE, delete |-> FALSE,
                  include_hidden |-> FALSE, transcode_formats |-> {FLAC},
                  target_format |-> OGG, extra_encoder_options |-> None]
    /\ rsync_exe = FALSE
    /\ fs = [files |-> <<>>, dirs |-> {SrcRoot, DestRoot}, links |-> {}]
    /\ fs0 = fs
    /\ tfcs = {}
    /\ ustate = <<>>
    /\ at = <<>>
    /\ tool = <<>>
    /\ ulog = <<>>
    /\ results = <<>>
    /\ errors = 0
    /\ todelete = {}
    /\ interrupted = FALSE
    /\ status = -1
    /\ run = 1
    /\ first = NoFirst

\* copy_tags(src, dest) for the tags of arg
CallCopyTags ==
    /\ pc = "copy_tags"
    /\ out' = copy_tags(arg.src, arg.dest, arg.ok)
    /\ pc' = "tags_copied"
    /\ UNCHANGED <<options, rsync_exe, fs, tfcs, ustate, at, tool, ulog, results,
                   errors, todelete, interrupted, status, run, first, fs0, arg>>

NextTags == CallCopyTags

SpecTags == InitTags /\ [][NextTags]_vars

(***************************************************************************)
(* Properties                                                              *)
(***************************************************************************)
Range(q) == {q[i] : i \in 1..Len(q)}
FailedUnits == {u \in Units : ustate[u] = "FAILED"}
Max(a, b) == IF a > b THEN a ELSE b

\* the part of an absolute path below a root
Below(p, root) == SubSeq(p, Len(root) + 2, Len(p))
IsBelow(p, root) == StartsWith(p, root \o <<SLASH>>)

\* some component of a relative path starts with a dot
HasHiddenComponent(rel) ==
    \E i \in 1..Len(rel) : rel[i] = DOT /\ (i = 1 \/ rel[i - 1] = SLASH)

SourceFiles == {p \in DOMAIN fs.files : IsBelow(p, SrcRoot)}
DestFiles == {p \in DOMAIN fs.files : IsBelow(p, DestRoot)}

\* C1: with include_hidden false the units enumerated are exactly the source
\* files none of whose path components below the root starts with a dot (a
\* hidden directory is left out with its whole subtree); with include_hidden
\* true every source file is enumerated.
C1_HiddenSubtreeExcluded ==
    pc = "pool" =>
        Units = {p \in SourceFiles :
                    options.include_hidden \/ ~HasHiddenComponent(Below(p, SrcRoot))}

\* C2 as stated: the exit status of an uninterrupted run equals the number
\* of units whose transfer failed.
C2_StatusIsFailureCount ==
    (pc = "done" /\ ~interrupted) => status = Cardinality(FailedUnits)

\* C2 amended: when an uninterrupted run returns, main's error tally equals
\* the number of units whose transfer failed, and the exit status is 1 when
\* that number is positive and 0 when no unit failed.
C2_StatusIsFailureFlag ==
    (pc = "done" /\ ~interrupted) =>
        /\ errors = Cardinality(FailedUnits)
        /\ status = IF FailedUnits = {} THEN 0 ELSE 1

C2_Witness ==
    /\ pc = "done" /\ ~interrupted
    /\ Cardinality(FailedUnits) = 2
    /\ errors = 2 /\ status = 1

\* C3: after an interrupt, the error count main reports and returns counts
\* every unit that had completed with a failure before the interrupt.
C3_InterruptKeepsCount ==
    (pc = "done" /\ interrupted) =>
        /\ errors = Cardinality(FailedUnits)
        /\ status = IF FailedUnits = {} THEN 0 ELSE 1

\* what C4 says of a second run: no unit copies or transcodes, none fails,
\* and a run that is not interrupted ends with every unit SKIPPED
SecondRunIdle ==
    /\ \A u \in Units : ustate[u] \in {"PENDING", "SKIPPED"} /\ ulog[u] = <<>>
    /\ errors = 0
    /\ (pc = "done" /\ ~interrupted) =>
           (status = 0 /\ \A u \in Units : ustate[u] = "SKIPPED")

FirstRunWrote == "pacpl_noout" \notin first.methods

C5_Staleness ==
    [][\A u \in Units :
          /\ (ustate[u] = "PENDING" /\ ustate'[u] # "PENDING") =>
                LET t == Unit(u)
                    fresh == /\ exists(fs, t.dest)
                             /\ fs.files[t.dest] >= fs.files[t.src]
                IN IF ~options.force /\ fresh
                   THEN /\ ustate'[u] = "SKIPPED"
                        /\ ulog'[u] = <<>>
                        /\ fs' = fs
                        /\ results'[Len(results')]
                              = [src |-> u, raised |-> FALSE, value |-> 0]
                   ELSE ustate'[u] = "RUNNING" /\ at'[u] = "check"
          /\ (ustate[u] = "RUNNING" /\ ustate'[u] # "RUNNING") =>
                ustate'[u] \in {"COPIED", "TRANSCODED", "FAILED"}]_vars

C5_Witness ==
    \E t \in tfcs :
        /\ ustate[t.src] = "SKIPPED"
        /\ ~options.force
        /\ fs.files[t.dest] = fs.files[t.src]

\* C6: no failure met while a unit is processed leaves transfer as an
\* exception: every unit ends with an error result, none with an exception
\* on the result queue.
C6_FailuresIsolated ==
    /\ \A u \in Units : ustate[u] # "RAISED"
    /\ \A k \in 1..Len(results) : ~results[k].raised

\* the last index of character c in s, 0 when there is none
LastIndex(s, c) ==
    LET found == {i \in 1..Len(s) : s[i] = c}
    IN IF found = {} THEN 0 ELSE CHOOSE i \in found : \A k \in found : k <= i

\* p names a file below the source root: its relative path is made of
\* non-empty components, none of them "." or ".."
UnderSrcRoot(p) ==
    /\ IsBelow(p, SrcRoot)
    /\ LET comps == SplitSlash(Below(p, SrcRoot))
       IN \A k \in 1..Len(comps) : comps[k] \notin {<<>>, <<DOT>>, <<DOT, DOT>>}

\* The reference rule for the destination of p. The extension of p is what
\* follows the last dot of its file name, the dots the name starts with not
\* counted; a name without such a dot has no extension.
RefDest(p, exts, target) ==
    LET rel == Below(p, SrcRoot)
        name0 == LastIndex(rel, SLASH)
        lead == {i \in (name0 + 1)..Len(rel) :
                    \A k \in (name0 + 1)..i : rel[k] = DOT}
        dot == LastIndex(rel, DOT)
        hasext == dot > name0 /\ dot \notin lead
        ext == SubSeq(rel, dot + 1, Len(rel))
    IN IF hasext /\ \E e \in exts : Lower(e) = Lower(ext)
       THEN DestRoot \o <<SLASH>> \o SubSeq(rel, 1, dot) \o target
       ELSE DestRoot \o <<SLASH>> \o rel

\* C7: for every path p under src_root, find_dest returns the reference
\* rule's path: dest_root joined with p's relative path, the extension
\* replaced by the target extension when it is, compared case-insensitively,
\* one of the transcode extensions, and the relative path unchanged
\* otherwise.
C7_FindDestRule ==
    (pc = "returned" /\ UnderSrcRoot(arg.src)) =>
        out = RefDest(arg.src, arg.src_exts, options.target_format)

\* find_dest agrees with the reference rule on every path under src_root
\* whose relative path does not start with two dots, for a finder built
\* with lower-case transcode extensions
FindDestAgreesElsewhere ==
    (/\ pc = "returned" /\ UnderSrcRoot(arg.src)
     /\ ~StartsWith(Below(arg.src, SrcRoot), <<DOT, DOT>>)
     /\ \A e \in arg.src_exts : Lower(e) = e) =>
        out = RefDest(arg.src, arg.src_exts, options.target_format)

\* C8: the files the delete loop is given are exactly the existing
\* destination files that are the find_dest image of no enumerated source
\* file, so they hold the destination of no unit; and once the loop has
\* removed them all, walk_extra_dest_files over the same trees is empty.
C8_PruneCorrect ==
    (pc \in {"deleting", "done"} /\ options.delete /\ ~options.dry_run) =>
        /\ LET targets == {find_dest(df, src) : src \in walk_source_files(df, fs)}
           IN todelete = {p \in walk_existing_dest_files(df, fs) : p \notin targets}
        /\ todelete \cap {t.dest : t \in tfcs} = {}
        /\ pc = "done" => walk_extra_dest_files(df, fs) = {}

C8_Witness ==
    /\ pc = "done" /\ options.delete /\ ~options.dry_run
    /\ \E p \in DOMAIN fs0.files : IsBelow(p, DestRoot) /\ p \notin DOMAIN fs.files
    /\ \E t \in tfcs : t.dest \in DOMAIN fs.files

\* C9: a run with dry_run=true leaves the file system as it found it (no
\* directory created, no file written or removed) and makes no call to a
\* copy method, the transcoding tool, the tag library or copy_mode, for
\* every force, delete and jobs.
C9_DryRunFrame ==
    options.dry_run =>
        /\ fs = fs0
        /\ \A u \in Units : ulog[u] = <<>> /\ tool[u] = "none"
        /\ todelete = {}

C9_Witness ==
    /\ options.dry_run /\ options.delete /\ options.force
    /\ pc = "done"
    /\ walk_extra_dest_files(df, fs) # {}
    /\ \E t \in tfcs : ustate[t.src] = "TRANSCODED"
    /\ \E t \in tfcs : ustate[t.src] = "COPIED" /\ ~isdir(fs, t.dest_dir)

\* C10: every jobs >= 0 is accepted, the run executes all its units, and at
\* no time are more than max(jobs, 1) units executing.
C10_PoolSize ==
    /\ options.jobs >= 0 => pc # "usage_error"
    /\ Cardinality(Running) <= Max(options.jobs, 1)
    /\ (pc = "done" /\ ~interrupted) => \A u \in Units : ustate[u] \in Terminal

\* the units for which the transcoding tool was called
Transcoded == {u \in Units : Range(ulog[u]) \cap {"pacpl", "pacpl_noout"} # {}}

\* C11: when extra encoder options are configured, the command line of every
\* call of the transcoding tool holds --eopts followed by those options; when
\* none are configured, no command line holds --eopts.
C11_EoptsPassed ==
    \A u \in Transcoded :
        LET command == pacpl_command(Unit(u))
        IN IF options.extra_encoder_options # None
           THEN \E i \in 1..(Len(command) - 1) :
                    /\ command[i] = EOPTS_FLAG
                    /\ command[i + 1] = options.extra_encoder_options
           ELSE \A i \in 1..Len(command) : command[i] # EOPTS_FLAG

\* main has returned for a configuration error with nothing done: no unit
\* enumerated or run, no directory or file created or removed
ConfigErrorBeforeWork ==
    /\ fs = fs0
    /\ tfcs = {}
    /\ ustate = <<>>
    /\ results = <<>>
    /\ todelete = {}

\* C12 as stated: a configuration error makes main return, before any work,
\* a non-zero status that no run ending with failed transfers returns.
C12_ConfigErrorDistinct ==
    /\ pc = "config_error" => (ConfigErrorBeforeWork /\ status # 0)
    /\ (pc = "done" /\ FailedUnits # {} /\ ~interrupted) => status # ConfigErrorStatus

\* C12 amended: a configuration error makes main return status 1 before any
\* enumeration, directory creation, unit execution or deletion; a run with
\* such a configuration never reaches the pool; and 1 is also the status of
\* an uninterrupted run that ended with failed transfers.
C12_ConfigErrorFirst ==
    /\ pc = "config_error" =>
          (ConfigErrorBeforeWork /\ status = ConfigErrorStatus /\ status # 0)
    /\ options.target_format \in options.transcode_formats =>
          (pc \in {"parse", "usage_error", "main", "config_error"} /\ fs = fs0)
    /\ (pc = "done" /\ FailedUnits # {} /\ ~interrupted) => status = ConfigErrorStatus

C12_Witness ==
    /\ pc = "config_error"
    /\ options.delete /\ ~options.dry_run
    /\ DestFiles # {}
    /\ \E p \in SourceFiles : ~isdir(fs, split(find_dest(df, p))[1])

\* the calls a unit makes once it is past the pre-check
ToolCalls == {"link", "rsync", "copyfile", "pacpl", "pacpl_noout", "copy_tags", "copy_mode"}

\* a step of the worker that has unit u
StepOf(u) == <<ustate'[u], at'[u], ulog'[u]>> # <<ustate[u], at[u], ulog[u]>>

\* C13: a unit that reaches the transcode branch with a double quote in its
\* source path ends FAILED with result 1, without a call of the transcoding
\* tool, of copy_tags or of copy_mode; no file is touched, and the state of
\* no other unit changes.
C13_QuoteFailsUnit ==
    [][\A u \in Units :
          (/\ ustate[u] = "RUNNING"
           /\ needs_transcode(Unit(u))
           /\ Contains(u, QUOTE)
           /\ StepOf(u)) =>
             /\ at[u] = "check" => (at'[u] = "except" /\ ustate'[u] = "RUNNING")
             /\ at[u] # "check" =>
                   /\ at[u] = "except"
                   /\ ustate'[u] = "FAILED"
                   /\ results'[Len(results')] = [src |-> u, raised |-> FALSE, value |-> 1]
             /\ Range(ulog'[u]) \cap ToolCalls = {}
             /\ tool'[u] = "none"
             /\ fs' = fs
             /\ \A v \in Units \ {u} : ustate'[v] = ustate[v] /\ ulog'[v] = ulog[v]]_vars

C13_Witness ==
    /\ options.dry_run
    /\ \E u \in Units : Contains(u, QUOTE) /\ ustate[u] = "FAILED"
    /\ \E u \in Units : ~Contains(u, QUOTE) /\ ustate[u] = "TRANSCODED"
    /\ pc = "done" /\ status = 1

\* the components of an absolute path with "." and ".." resolved, left to
\* right; ".." at the root stays at the root
RECURSIVE Resolved(_, _)
Resolved(comps, acc) ==
    IF Len(comps) = 0 THEN acc
    ELSE LET c == Head(comps)
         IN IF c = <<>> \/ c = <<DOT>> THEN Resolved(Tail(comps), acc)
            ELSE IF c = <<DOT, DOT>>
            THEN Resolved(Tail(comps),
                          IF Len(acc) = 0 THEN acc ELSE SubSeq(acc, 1, Len(acc) - 1))
            ELSE Resolved(Tail(comps), Append(acc, c))

\* the absolute path p is lexically under the source root, or is the root
LexicallyUnderSrcRoot(p) ==
    LET r == Resolved(SplitSlash(p), <<>>)
        root == Resolved(SplitSlash(SrcRoot), <<>>)
    IN Len(r) >= Len(root) /\ SubSeq(r, 1, Len(root)) = root

\* C14: find_dest raises ValueError, and returns no path, for every absolute
\* path that is not lexically under src_root once "." and ".." are
\* resolved; it does not raise for a path that resolves to src_root itself.
C14_OutsideRootRejected ==
    (pc = "returned" /\ isabs(arg.src)) =>
        /\ ~LexicallyUnderSrcRoot(arg.src) => out = ValueError
        /\ Resolved(SplitSlash(arg.src), <<>>) = Resolved(SplitSlash(SrcRoot), <<>>)
              => out # ValueError

C14_Witness ==
    /\ pc = "returned"
    /\ arg.src = <<"/", "s", "/", ".", ".", "/", "a">>
    /\ out = ValueError

\* C15: in a run that is not a dry run, from the moment the units are handed
\* to the pool the destination directory of every unit exists, the
\* directories are exactly those found at the start and those main created
\* before the pool (no worker creates one), and no unit has failed in its
\* pre-check.
C15_DirectoryBarrier ==
    (~options.dry_run /\ tfcs # {}) =>
        /\ \A t \in tfcs : isdir(fs, t.dest_dir)
        /\ fs.dirs = fs0.dirs \cup {t.dest_dir : t \in tfcs}
        /\ \A u \in Units : ustate[u] = "FAILED" => ulog[u] # <<"check">>

C15_Witness ==
    /\ ~options.dry_run
    /\ Cardinality(Running) = 2
    /\ \E t \in tfcs : ustate[t.src] = "RUNNING" /\ t.dest_dir \notin fs0.dirs

\* C16: no two distinct units built by transfercodes have the same dest, and
\* no unit's dest is the src of a unit.
C16_DistinctDests ==
    /\ \A t1, t2 \in tfcs : t1.src # t2.src => t1.dest # t2.dest
    /\ \A t1, t2 \in tfcs : t1.dest # t2.src

\* C17: a removal that fails in the delete loop does not end the run: main
\* never ends with an exception while files are left for the loop to visit.
C17_DeleteBestEffort ==
    pc = "crashed" => todelete = {}

\* u's worker makes the step in which check() is called, unless dry_run,
\* while src is no regular file or the destination directory is missing
MeetsPreCheck(u) ==
    /\ ustate[u] = "RUNNING" /\ at[u] = "check" /\ at'[u] # "check"
    /\ ~isfile(fs, u) \/ ~isdir(fs, Unit(u).dest_dir)

\* what C18 says of such a step: the exception is raised, no copy method and
\* no tool was or will be called, no file is touched, no other unit disturbed
PreCheckFails(u) ==
    /\ at'[u] = "except"
    /\ Range(ulog'[u]) \cap ToolCalls = {}
    /\ tool'[u] = "none"
    /\ fs' = fs
    /\ \A v \in Units \ {u} : ustate'[v] = ustate[v]

\* a unit whose worker is in the except clause ends FAILED with result 1,
\* and makes no call on the way
ExceptFails(u) ==
    (ustate[u] = "RUNNING" /\ at[u] = "except" /\ StepOf(u)) =>
        /\ ustate'[u] = "FAILED"
        /\ results'[Len(results')] = [src |-> u, raised |-> FALSE, value |-> 1]
        /\ ulog'[u] = ulog[u]
        /\ fs' = fs

CopyOrder == <<"link", "rsync", "copyfile">>

\* entry i of the calls m is a copy method that did not fail
Succeeded(m, i) ==
    /\ m[i] \in Range(CopyOrder)
    /\ (i = Len(m) \/ m[i + 1] # "failed")

\* the copy methods called in m, in the order of the calls
Attempts(m) == SelectSeq(m, LAMBDA x : x \in Range(CopyOrder))

\* C19: the calls of a unit that was copied or failed in copy are hard link,
\* then rsync (when the tool is installed), then copyfile, in this order and
\* each one only after every method before it failed; copy_mode is called
\* only after a copyfile that succeeded; the unit is COPIED iff one method
\* succeeded (and then its dest is a file) and FAILED iff every method failed,
\* which a failure of copy_mode never causes.
C19_CopyOrdering ==
    \A u \in Units :
        (/\ ~needs_transcode(Unit(u))
         /\ ustate[u] \in {"COPIED", "FAILED"}
         /\ ~options.dry_run
         /\ ulog[u] # <<"check">>) =>
            LET m == Tail(ulog[u])
                a == Attempts(m)
                full == IF rsync_exe THEN CopyOrder ELSE <<"link", "copyfile">>
            IN /\ Head(ulog[u]) = "check"
               /\ Len(a) >= 1 /\ a = SubSeq(full, 1, Len(a))
               /\ \A i \in 1..Len(m) : Succeeded(m, i) =>
                     \/ i = Len(m)
                     \/ (m[i] = "copyfile" /\ i + 1 = Len(m) /\ m[i + 1] = "copy_mode")
               /\ \A i \in 1..Len(m) : m[i] = "copy_mode" => (i > 1 /\ m[i - 1] = "copyfile")
               /\ ustate[u] = "COPIED" <=> \E i \in 1..Len(m) : Succeeded(m, i)
               /\ ustate[u] = "FAILED" <=> (a = full /\ \A i \in 1..Len(m) : ~Succeeded(m, i))
               /\ ustate[u] = "COPIED" => isfile(fs, Unit(u).dest)

C19_Witness ==
    /\ rsync_exe /\ ~options.dry_run
    /\ \E u \in Units :
          /\ ulog[u] = <<"check", "link", "failed", "rsync", "failed", "copyfile", "copy_mode">>
          /\ ustate[u] = "COPIED"

\* the names of TagNames that match the blacklist: encodedby, x_replaygain, ~t
BlacklistedNames ==
    { <<"e", "n", "c", "o", "d", "e", "d", "b", "y">>,
      <<"x", "_", "r", "e", "p", "l", "a", "y", "g", "a", "i", "n">>,
      <<"~", "t">> }

\* the tags of d whose name is in S
Restrict(d, S) == [k \in DOMAIN d \cap S |-> d[k]]

\* C20 as stated: after copy_tags the blacklisted fields of dest are what
\* they were before the call, and its other fields are exactly the
\* non-blacklisted fields of src.
C20_TagsCopied ==
    pc = "tags_copied" =>
        /\ Restrict(out, BlacklistedNames) = Restrict(arg.dest, BlacklistedNames)
        /\ Restrict(out, TagNames \ BlacklistedNames)
              = Restrict(arg.src, TagNames \ BlacklistedNames)

\* C20 amended: after copy_tags the blacklisted fields of dest are what they
\* were before the call; when no call of the tag library raised, the other
\* fields of dest are exactly the non-blacklisted fields of src; when one
\* raised, dest has the tags it had before.
C20_TagsCopiedUnlessFailed ==
    pc = "tags_copied" =>
        /\ Restrict(out, BlacklistedNames) = Restrict(arg.dest, BlacklistedNames)
        /\ arg.ok => Restrict(out, TagNames \ BlacklistedNames)
                        = Restrict(arg.src, TagNames \ BlacklistedNames)
        /\ ~arg.ok => out = arg.dest

C20_Witness ==
    /\ pc = "tags_copied" /\ arg.ok
    /\ arg.src = (<<"t", "i", "t", "l", "e">> :> 1 @@ <<"~", "t">> :> 1)
    /\ arg.dest = (<<"t", "~">> :> 2 @@ <<"~", "t">> :> 2)
    /\ out = (<<"t", "i", "t", "l", "e">> :> 1 @@ <<"~", "t">> :> 2)

\* a run that is not interrupted, in which nothing but the program touches
\* the two trees
NextQuiet ==
    \/ ParseReject
    \/ ParseAccept
    \/ MainConfigError
    \/ MainSetup
    \/ \E u \in Units : WorkerNext(u)
    \/ \E u \in Units : ToolNext(u)
    \/ MainCollect
    \/ \E f \in todelete, ok \in BOOLEAN : DeleteOne(f, ok)

SpecQuiet == Init /\ [][NextQuiet]_vars

\* the states a unit's transfer ends in when it returns
ResultStates == {"SKIPPED", "COPIED", "TRANSCODED", "FAILED"}

\* main has left the try statement around the pool without an interrupt
PoolLeft == pc \in {"deleting", "done", "crashed"} /\ ~interrupted

\* the results on the queue that are unit u's
ResultsOf(u) == {k \in 1..Len(results) : results[k].src = u}

\* C21: in a run that is not interrupted, every enumerated unit is taken by
\* one worker and run once, ends in exactly one of SKIPPED, COPIED,
\* TRANSCODED and FAILED, and when main has left the pool every unit is in
\* such a state and its result was added once to errors.
C21_EachUnitOnce ==
    /\ \A u \in Units : ustate[u] \in {"PENDING", "RUNNING"} \cup ResultStates
    /\ pc = "pool" =>
          \A u \in Units :
              Cardinality(ResultsOf(u)) = (IF ustate[u] \in Terminal THEN 1 ELSE 0)
    /\ PoolLeft =>
          /\ \A u \in Units : ustate[u] \in ResultStates
          /\ errors = Cardinality(FailedUnits)

\* the part of C21 that holds whatever happens to the trees: a unit is
\* started once, by a worker that found it PENDING, and the state it ends in
\* is never changed afterwards
UnitRunsOnce ==
    [][\A u \in Units :
          /\ ustate[u] # "PENDING" /\ u \in DOMAIN ustate' => ustate'[u] # "PENDING"
          /\ ustate[u] \in Terminal /\ u \in DOMAIN ustate' => ustate'[u] = ustate[u]
          /\ ustate[u] = "PENDING" /\ u \in DOMAIN ustate'
                => ustate'[u] \in {"PENDING", "RUNNING", "SKIPPED", "RAISED"}
          /\ ustate[u] = "RUNNING" /\ u \in DOMAIN ustate'
                => ustate'[u] \in {"RUNNING", "COPIED", "TRANSCODED", "FAILED"}]_vars

\* main has returned, or the process has ended with an error
Ended == pc \in {"usage_error", "config_error", "done", "crashed"}

\* the steps the worker of unit u and its tool can still take
UnitStepsLeft(u) ==
    CASE at[u] = "queued" -> 10
      [] at[u] = "check" -> 9
      [] at[u] = "link" -> 8
      [] at[u] \in {"call_rsync", "call_pacpl"} -> 7
      [] at[u] \in {"rsync", "pacpl"} -> IF tool[u] = "running" THEN 6 ELSE 5
      [] at[u] \in {"copyfile", "copy_tags"} -> 4
      [] at[u] = "copy_mode" -> 3
      [] at[u] \in {"except", "return"} -> 2
      [] OTHER -> 0

RECURSIVE SumOver(_)
SumOver(S) ==
    IF S = {} THEN 0
    ELSE LET u == CHOOSE x \in S : TRUE IN UnitStepsLeft(u) + SumOver(S \ {u})

\* the steps the run can still take: main's position, then the steps left
\* to the units, then the files not yet deleted
StepsLeft ==
    CASE pc = "parse" -> 10 * MaxFiles + Cardinality(DestUniverse) + 4
      [] pc = "main" -> 10 * MaxFiles + Cardinality(DestUniverse) + 3
      [] pc = "pool" -> Cardinality(DestUniverse) + 2 + SumOver(Units)
      [] pc = "deleting" -> Cardinality(todelete)
      [] OTHER -> 0

\* every step of a run that is not interrupted leaves fewer steps to take
RunAdvances == [][StepsLeft' < StepsLeft]_vars

\* the worker of a running unit can take a step, or the tool it waits for can
CanStep(u) ==
    /\ at[u] \notin {"queued", "returned"}
    /\ at[u] \in {"pacpl", "rsync"} <=> tool[u] # "none"

\* a run that has not ended can take a step: the pool has a unit to start,
\* a unit to finish or all its results to hand over, the delete loop a file
RunNotStuck ==
    /\ pc = "pool" =>
          /\ \A u \in Running : CanStep(u)
          /\ \/ \A u \in Units : ustate[u] \in Terminal
             \/ Running # {}
             \/ \E u \in Units :
                   ustate[u] = "PENDING" /\ Cardinality(Running) < options.jobs
    /\ pc = "deleting" => todelete # {}
    /\ pc \in {"parse", "main", "pool", "deleting"} \/ Ended
====
